---- MODULE Spec2Model ----
(***************************************************************************)
(* Open-Meteo daily weather pipeline:                                      *)
(*   data/open_meteo.py  daily_json_to_df, fetch_and_process_years,        *)
(*                       fetch_and_process_partial_year                    *)
(*   data/io.py          save_dataframe                                    *)
(* A table (DataFrame) is a record [columns, rows]: the column labels in   *)
(* order and the rows in order, each row a function from label to cell.    *)
(* A payload is the JSON mapping a fetch returns; its "daily" entry, when  *)
(* it is a mapping, is the ordered list of its (key, list) items.          *)
(***************************************************************************)
EXTENDS Integers, Sequences, FiniteSets, TLC

VARIABLES
    pc,            \* position of the running call
    op,            \* the function that was called
    start_year,    \* fetch_and_process_years: first year of the range
    end_year,      \* fetch_and_process_years: last year of the range
    sleep_seconds, \* politeness delay argument
    raw_dir_ok,    \* whether raw_dir can be created (or is there already)
    yr,            \* loop variable of fetch_and_process_years / year argument
    payload,       \* the payload under the call's hands
    frames,        \* fetch_and_process_years: accumulated per-year tables
    pending,       \* outcome of the try block, waiting for the finally clause
    raw_files,     \* raw_dir: file name -> content
    result,        \* what the call gave its caller
    fetched,       \* history: year -> outcome of that year's fetch
    trace,         \* history: the steps taken, in order
    save_in,       \* save_dataframe: its arguments and the writers' fate
    processed      \* processed_dir: whether it exists and the files in it

vars == <<pc, op, start_year, end_year, sleep_seconds, raw_dir_ok, yr, payload,
          frames, pending, raw_files, result, fetched, trace, save_in, processed>>

----------------------------------------------------------------------------
(* Bounds *)

MaxRows == 2

LastYear == 3

Years == 1..LastYear

----------------------------------------------------------------------------
(* Cells *)

DateStrings == {"2024-01-01T00:00", "2024-01-01T06:00", "2024-01-02T00:00", "not-a-date"}

NumberStrings == {"30.1"}

Keys == {"time", "date", "temperature_2m_max"}

\* pd.to_datetime on one string: a timestamp, or failure on an unparseable one.
ToDatetime(s) ==
    CASE s = "2024-01-01T00:00" -> [ok |-> TRUE, day |-> 1, hour |-> 0]
      [] s = "2024-01-01T06:00" -> [ok |-> TRUE, day |-> 1, hour |-> 6]
      [] s = "2024-01-02T00:00" -> [ok |-> TRUE, day |-> 2, hour |-> 0]
      [] OTHER -> [ok |-> FALSE, day |-> 0, hour |-> 0]

\* Series.dt.normalize(): midnight of the same day.
DtNormalize(ts) == [day |-> ts.day, hour |-> 0]

----------------------------------------------------------------------------
(* Tables *)

Range(s) == {s[i] : i \in DOMAIN s}

\* pd.DataFrame(): no columns, no rows.
EmptyFrame == [columns |-> <<>>, rows |-> <<>>]

\* DataFrame.empty: any axis of length 0.
IsEmpty(df) == Len(df.columns) = 0 \/ Len(df.rows) = 0

Returned(df) == [raised |-> FALSE, df |-> df]

Raised == [raised |-> TRUE, df |-> EmptyFrame]

\* pd.DataFrame(mapping of equal-length lists): one column per key, in key order.
PdDataFrame(items) ==
    LET cols == [i \in DOMAIN items |-> items[i].key]
        n == Len(items[1].vals)
        cell(r, c) == LET i == CHOOSE j \in DOMAIN items : items[j].key = c
                      IN items[i].vals[r]
    IN [columns |-> cols,
        rows |-> [r \in 1..n |-> [c \in Range(cols) |-> cell(r, c)]]]

\* pd.DataFrame raises ValueError when the lists differ in length.
EqualLengths(items) ==
    \A i, j \in DOMAIN items : Len(items[i].vals) = Len(items[j].vals)

\* The renamed column moved to the front.
RenameColumnToFront(df, old, new) ==
    LET keep(c) == c # old
        cols == <<new>> \o SelectSeq(df.columns, keep)
    IN [columns |-> cols,
        rows |-> [r \in DOMAIN df.rows |->
                    [c \in Range(cols) |->
                        IF c = new THEN df.rows[r][old] ELSE df.rows[r][c]]]]

\* df.rename(columns={old: new}): the label changes, its position does not.
RenameColumn(df, old, new) ==
    LET cols == [i \in DOMAIN df.columns |->
                    IF df.columns[i] = old THEN new ELSE df.columns[i]]
    IN [columns |-> cols,
        rows |-> [r \in DOMAIN df.rows |->
                    [c \in Range(cols) |->
                        IF c = new THEN df.rows[r][old] ELSE df.rows[r][c]]]]

\* A scalar assigned to a column goes to every row.
Broadcast(df, v) == [r \in DOMAIN df.rows |-> v]

\* df[name] = vals: an existing column is overwritten in place, a new one is
\* appended as the last column.
SetColumn(df, name, vals) ==
    LET cols == IF name \in Range(df.columns) THEN df.columns
                ELSE Append(df.columns, name)
    IN [columns |-> cols,
        rows |-> [r \in DOMAIN df.rows |->
                    [c \in Range(cols) |->
                        IF c = name THEN vals[r] ELSE df.rows[r][c]]]]

----------------------------------------------------------------------------
(* daily_json_to_df *)

EmptyMapping == [is_mapping |-> TRUE, items |-> <<>>]

\* payload.get("daily", {})
GetDaily(p) == IF p.has_daily THEN p.daily ELSE EmptyMapping

\* pd.to_datetime(df["date"], utc=False).dt.normalize()
ParsedDates(df) == [r \in DOMAIN df.rows |-> DtNormalize(ToDatetime(df.rows[r]["date"]))]

daily_json_to_df(p) ==
    LET daily == GetDaily(p) IN
    IF ~daily.is_mapping \/ daily.items = <<>> THEN Returned(EmptyFrame)
    ELSE IF ~EqualLengths(daily.items) THEN Raised
    ELSE LET df == PdDataFrame(daily.items) IN
         IF "time" \notin Range(df.columns) THEN Returned(EmptyFrame)
         ELSE IF "date" \in Range(df.columns) THEN Raised
         ELSE LET renamed == RenameColumn(df, "time", "date") IN
              IF \E r \in DOMAIN renamed.rows : ~ToDatetime(renamed.rows[r]["date"]).ok
              THEN Raised
              ELSE Returned(SetColumn(renamed, "date", ParsedDates(renamed)))

----------------------------------------------------------------------------
(* Payloads *)

SeqsUpTo(S, n) == UNION {[1..k -> S] : k \in 0..n}

Injective(s) == \A i, j \in DOMAIN s : s[i] = s[j] => i = j

KeySeqs == {s \in SeqsUpTo(Keys, Cardinality(Keys)) : Injective(s)}

ColumnValues(k) ==
    IF k = "time" THEN SeqsUpTo(DateStrings, MaxRows) ELSE SeqsUpTo(NumberStrings, MaxRows)

RECURSIVE ItemsFor(_)
ItemsFor(ks) ==
    IF ks = <<>> THEN {<<>>}
    ELSE {Append(front, [key |-> ks[Len(ks)], vals |-> v]) :
            front \in ItemsFor(SubSeq(ks, 1, Len(ks) - 1)),
            v \in ColumnValues(ks[Len(ks)])}

NoDailyPayload == [has_daily |-> FALSE, daily |-> EmptyMapping]

NotMappingPayload == [has_daily |-> TRUE, daily |-> [is_mapping |-> FALSE, items |-> <<>>]]

MappingPayload(items) == [has_daily |-> TRUE, daily |-> [is_mapping |-> TRUE, items |-> items]]

NormPayloads ==
    {NoDailyPayload, NotMappingPayload}
        \cup {MappingPayload(items) : items \in UNION {ItemsFor(ks) : ks \in KeySeqs}}

----------------------------------------------------------------------------
(* Table operations of the orchestrators *)

Indices(s) == [i \in 1..Len(s) |-> i]

\* The sort key of a row: its (normalized) date.
DateKey(row) == row["date"].day * 24 + row["date"].hour

RECURSIVE ConcatRows(_)
ConcatRows(fs) ==
    IF fs = <<>> THEN <<>> ELSE fs[1].rows \o ConcatRows(Tail(fs))

RECURSIVE ConcatColumns(_)
ConcatColumns(fs) ==
    IF fs = <<>> THEN <<>>
    ELSE LET rest == ConcatColumns(SubSeq(fs, 1, Len(fs) - 1))
             new(c) == c \notin Range(rest)
         IN rest \o SelectSeq(fs[Len(fs)].columns, new)

\* pd.concat(frames, ignore_index=True): the rows of the frames in list order under
\* the union of their columns; a cell a frame does not have is NaN.
Concat(fs) ==
    LET cols == ConcatColumns(fs)
        rows == ConcatRows(fs)
    IN [columns |-> cols,
        rows |-> [r \in DOMAIN rows |->
                    [c \in Range(cols) |->
                        IF c \in DOMAIN rows[r] THEN rows[r][c] ELSE "NaN"]]]

Min(S) == CHOOSE x \in S : \A y \in S : x <= y

RECURSIVE Arrange(_, _, _)
Arrange(rows, ks, pick) ==
    IF ks = {} THEN <<>>
    ELSE LET k == Min(ks)
             others(i) == DateKey(rows[i]) = k /\ i # pick[k]
         IN <<pick[k]>> \o SelectSeq(Indices(rows), others) \o Arrange(rows, ks \ {k}, pick)

\* The concatenated table left in fetch order.
SortValuesSkipped(df) == {df}

\* df.sort_values("date"): kind defaults to "quicksort", which is not stable, so rows
\* of equal date come out in an order the call does not fix.  The orders kept here
\* are those that differ in the row that leads each run of equal dates (any row of
\* the run may lead it); the rows behind it stay in their order before the sort.
SortValues(df) ==
    LET ks == {DateKey(df.rows[i]) : i \in DOMAIN df.rows}
        picks == {f \in [ks -> DOMAIN df.rows] : \A k \in ks : DateKey(df.rows[f[k]]) = k}
    IN {[columns |-> df.columns,
         rows |-> LET order == Arrange(df.rows, ks, f)
                  IN [j \in DOMAIN order |-> df.rows[order[j]]]] : f \in picks}

\* df["date"].duplicated(): a row is a duplicate when an earlier row has its date.
Duplicated(df, i) == \E j \in 1..(i - 1) : df.rows[j]["date"] = df.rows[i]["date"]

DupesCount(df) == Cardinality({i \in DOMAIN df.rows : Duplicated(df, i)})

\* df.drop_duplicates(subset=["date"], keep="first")
DropDuplicates(df) ==
    LET keep(i) == ~Duplicated(df, i)
        kept == SelectSeq(Indices(df.rows), keep)
    IN [columns |-> df.columns, rows |-> [j \in DOMAIN kept |-> df.rows[kept[j]]]]

lat == "-33.86"

lon == "151.21"

timezone == "Australia/Sydney"

\* df["latitude"] = lat; df["longitude"] = lon; df["timezone"] = timezone
Annotate(df) ==
    LET a == SetColumn(df, "latitude", Broadcast(df, lat))
        b == SetColumn(a, "longitude", Broadcast(a, lon))
    IN SetColumn(b, "timezone", Broadcast(b, timezone))

\* dupes = df["date"].duplicated().sum(); if dupes: df = df.drop_duplicates(...)
DropIfDupes(df) == IF DupesCount(df) # 0 THEN DropDuplicates(df) ELSE df

\* Lines 206-216: concatenate, sort, annotate, drop duplicate dates.  The result of
\* reset_index(drop=True) is the rows in their final order.
Assemble(fs) == {DropIfDupes(Annotate(sorted)) : sorted \in SortValues(Concat(fs))}

----------------------------------------------------------------------------
(* What a fetch can return to the orchestrators *)

OrchTimeLists ==
    {<<"2024-01-01T06:00">>,
     <<"2024-01-01T06:00", "2024-01-02T00:00">>,
     <<"2024-01-02T00:00", "2024-01-01T06:00">>,
     <<"2024-01-01T06:00", "2024-01-01T06:00">>}

\* The value column numbers the payload's rows, so a row tells its position.
SamplePayload(times) ==
    MappingPayload(<<[key |-> "time", vals |-> times],
                     [key |-> "temperature_2m_max",
                      vals |-> [i \in DOMAIN times |-> ToString(i)]]>>)

UnequalPayload ==
    MappingPayload(<<[key |-> "time", vals |-> <<"2024-01-01T06:00">>],
                     [key |-> "temperature_2m_max", vals |-> <<>>]>>)

OrchPayloads ==
    {NoDailyPayload, UnequalPayload} \cup {SamplePayload(t) : t \in OrchTimeLists}

NoFetch == [status |-> "none", payload |-> NoDailyPayload]

FetchRaised == [status |-> "raised", payload |-> NoDailyPayload]

FetchOk(p) == [status |-> "ok", payload |-> p]

\* fetch_daily_year: one GET; raise_for_status or the transport raises, or the
\* decoded body is returned.
FetchOutcomes == {FetchRaised} \cup {FetchOk(p) : p \in OrchPayloads}

\* pd.io.json.dumps(payload, indent=2, ensure_ascii=False)
JsonDumps(p) == [indent |-> 2, ensure_ascii |-> FALSE, obj |-> p]

RawName(y, partial) == [year |-> y, partial |-> partial]

\* raw_path.write_text(text): the file of that name now holds text.
WriteText(files, name, text) ==
    {f \in files : f.name # name} \cup {[name |-> name, text |-> text]}

Event(e, y) == [ev |-> e, yr |-> y]

\* time.sleep raises ValueError on a negative argument.
SleepRaises(secs) == secs < 0

SleepValues == {-1, 1}

----------------------------------------------------------------------------
(* Shared initial values *)

NoResult == [kind |-> "none", df |-> EmptyFrame, artifacts |-> {}]

NoDir == [exists |-> FALSE, files |-> {}]

NoSave == [df |-> EmptyFrame, write_parquet |-> FALSE, mkdir_ok |-> TRUE, csv_ok |-> TRUE,
           parquet_ok |-> TRUE, dir_before |-> NoDir]

Idle ==
    /\ pc = "idle"
    /\ start_year = 0 /\ end_year = 0 /\ yr = 0
    /\ sleep_seconds = 0
    /\ raw_dir_ok = TRUE
    /\ payload = NoDailyPayload
    /\ frames = <<>>
    /\ pending = NoResult
    /\ raw_files = {}
    /\ result = NoResult
    /\ fetched = [y \in Years |-> NoFetch]
    /\ trace = <<>>
    /\ save_in = NoSave
    /\ processed = NoDir

----------------------------------------------------------------------------
(* Specification of daily_json_to_df *)

InitNorm ==
    /\ Idle
    /\ op = "daily_json_to_df"

CallNormalize ==
    /\ op = "daily_json_to_df" /\ pc = "idle"
    /\ \E p \in NormPayloads :
        /\ payload' = p
        /\ LET out == daily_json_to_df(p) IN
           result' = [kind |-> IF out.raised THEN "raised" ELSE "returned",
                      df |-> out.df, artifacts |-> {}]
    /\ pc' = "done"
    /\ UNCHANGED <<op, start_year, end_year, sleep_seconds, raw_dir_ok, yr, frames,
                   pending, raw_files, fetched, trace, save_in, processed>>

NextNorm == CallNormalize

SpecNorm == InitNorm /\ [][NextNorm]_vars

----------------------------------------------------------------------------
(* fetch_and_process_years *)

Log(e) == trace' = Append(trace, Event(e, yr))

ReturnTable(df) == [kind |-> "returned", df |-> df, artifacts |-> {}]

RaiseToCaller == [kind |-> "raised", df |-> EmptyFrame, artifacts |-> {}]

\* Line 181 and the loop head: raw_dir.mkdir(parents=True, exist_ok=True) is outside
\* any try; then frames = [] and the first year of range(start_year, end_year + 1).
YearsMkdir ==
    /\ op = "fetch_and_process_years" /\ pc = "mkdir"
    /\ trace' = Append(trace, Event("mkdir", 0))
    /\ IF ~raw_dir_ok
       THEN /\ result' = RaiseToCaller
            /\ pc' = "done"
            /\ UNCHANGED yr
       ELSE /\ result' = result
            /\ IF start_year <= end_year
               THEN yr' = start_year /\ pc' = "fetch"
               ELSE yr' = yr /\ pc' = "finish"
    /\ UNCHANGED <<op, start_year, end_year, sleep_seconds, raw_dir_ok, payload, frames,
                   pending, raw_files, fetched, save_in, processed>>

\* The fetch outside the try: its exception leaves the function.
YearsFetchUncaught ==
    /\ op = "fetch_and_process_years" /\ pc = "fetch"
    /\ \E o \in FetchOutcomes :
        /\ fetched' = [fetched EXCEPT ![yr] = o]
        /\ IF o.status = "raised"
           THEN payload' = payload /\ pc' = "done" /\ result' = RaiseToCaller
           ELSE payload' = o.payload /\ pc' = "write" /\ result' = result
    /\ Log("fetch")
    /\ UNCHANGED <<op, start_year, end_year, sleep_seconds, raw_dir_ok, yr, frames,
                   pending, raw_files, save_in, processed>>

\* Lines 186-188: payload = fetch_daily_year(session, yr, ...); an exception goes to
\* the except clause (logged) and on to the finally clause.
YearsFetch ==
    /\ op = "fetch_and_process_years" /\ pc = "fetch"
    /\ \E o \in FetchOutcomes :
        /\ fetched' = [fetched EXCEPT ![yr] = o]
        /\ IF o.status = "raised"
           THEN payload' = payload /\ pc' = "sleep"
           ELSE payload' = o.payload /\ pc' = "write"
    /\ Log("fetch")
    /\ UNCHANGED <<op, start_year, end_year, sleep_seconds, raw_dir_ok, yr, frames,
                   pending, raw_files, result, save_in, processed>>

\* The raw file written only for a payload that normalizes to a usable table.
YearsWriteOnlyUsable ==
    /\ op = "fetch_and_process_years" /\ pc = "write"
    /\ LET out == daily_json_to_df(payload) IN
       IF ~out.raised /\ ~IsEmpty(out.df)
       THEN raw_files' = WriteText(raw_files, RawName(yr, FALSE), JsonDumps(payload))
       ELSE raw_files' = raw_files
    /\ Log("write")
    /\ pc' = "normalize"
    /\ UNCHANGED <<op, start_year, end_year, sleep_seconds, raw_dir_ok, yr, payload,
                   frames, pending, result, fetched, save_in, processed>>

\* Lines 189-190: raw_path.write_text(dumps(payload)); the write may fail.
YearsWrite ==
    /\ op = "fetch_and_process_years" /\ pc = "write"
    /\ \E ok \in BOOLEAN :
        IF ok
        THEN /\ raw_files' = WriteText(raw_files, RawName(yr, FALSE), JsonDumps(payload))
             /\ Log("write")
             /\ pc' = "normalize"
        ELSE /\ raw_files' = raw_files
             /\ Log("write_failed")
             /\ pc' = "sleep"
    /\ UNCHANGED <<op, start_year, end_year, sleep_seconds, raw_dir_ok, yr, payload,
                   frames, pending, result, fetched, save_in, processed>>

\* Lines 191-196: df_yr = daily_json_to_df(payload); an empty table is skipped, any
\* other gets df_yr["year"] = yr and is appended to frames.
YearsNormalize ==
    /\ op = "fetch_and_process_years" /\ pc = "normalize"
    /\ LET out == daily_json_to_df(payload) IN
       frames' = IF out.raised \/ IsEmpty(out.df) THEN frames
                 ELSE Append(frames, SetColumn(out.df, "year", Broadcast(out.df, yr)))
    /\ Log("normalize")
    /\ pc' = "sleep"
    /\ UNCHANGED <<op, start_year, end_year, sleep_seconds, raw_dir_ok, yr, payload,
                   pending, raw_files, result, fetched, save_in, processed>>

\* The loop stopping one year short of end_year.
YearsSleepOffByOne ==
    /\ op = "fetch_and_process_years" /\ pc = "sleep"
    /\ Log("sleep")
    /\ IF SleepRaises(sleep_seconds)
       THEN /\ result' = RaiseToCaller
            /\ pc' = "done"
            /\ yr' = yr
       ELSE /\ result' = result
            /\ IF yr + 1 < end_year
               THEN yr' = yr + 1 /\ pc' = "fetch"
               ELSE yr' = yr /\ pc' = "finish"
    /\ UNCHANGED <<op, start_year, end_year, sleep_seconds, raw_dir_ok, payload, frames,
                   pending, raw_files, fetched, save_in, processed>>

\* Lines 199-200 and the loop's next iteration: sleep(sleep_seconds) in the finally
\* clause; an exception of sleep itself leaves the function.
YearsSleep ==
    /\ op = "fetch_and_process_years" /\ pc = "sleep"
    /\ Log("sleep")
    /\ IF SleepRaises(sleep_seconds)
       THEN /\ result' = RaiseToCaller
            /\ pc' = "done"
            /\ yr' = yr
       ELSE /\ result' = result
            /\ IF yr < end_year
               THEN yr' = yr + 1 /\ pc' = "fetch"
               ELSE yr' = yr /\ pc' = "finish"
    /\ UNCHANGED <<op, start_year, end_year, sleep_seconds, raw_dir_ok, payload, frames,
                   pending, raw_files, fetched, save_in, processed>>

\* Lines 202-216.
YearsFinish ==
    /\ op = "fetch_and_process_years" /\ pc = "finish"
    /\ IF frames = <<>>
       THEN result' = ReturnTable(EmptyFrame)
       ELSE \E df \in Assemble(frames) : result' = ReturnTable(df)
    /\ pc' = "done"
    /\ UNCHANGED <<op, start_year, end_year, sleep_seconds, raw_dir_ok, yr, payload,
                   frames, pending, raw_files, fetched, trace, save_in, processed>>

----------------------------------------------------------------------------
(* fetch_and_process_partial_year *)

\* Line 256: raw_dir.mkdir(parents=True, exist_ok=True), before the try.
PartialMkdir ==
    /\ op = "fetch_and_process_partial_year" /\ pc = "mkdir"
    /\ trace' = Append(trace, Event("mkdir", 0))
    /\ IF ~raw_dir_ok
       THEN result' = RaiseToCaller /\ pc' = "done"
       ELSE result' = result /\ pc' = "fetch"
    /\ UNCHANGED <<op, start_year, end_year, sleep_seconds, raw_dir_ok, yr, payload,
                   frames, pending, raw_files, fetched, save_in, processed>>

\* The delay at the end of the try body instead of in a finally clause: the except
\* clause returns without it.
PartialFetchNoFinally ==
    /\ op = "fetch_and_process_partial_year" /\ pc = "fetch"
    /\ \E o \in FetchOutcomes :
        /\ fetched' = [fetched EXCEPT ![yr] = o]
        /\ IF o.status = "raised"
           THEN /\ payload' = payload /\ pending' = pending
                /\ result' = ReturnTable(EmptyFrame) /\ pc' = "done"
           ELSE /\ payload' = o.payload /\ pending' = pending
                /\ result' = result /\ pc' = "write"
    /\ Log("fetch")
    /\ UNCHANGED <<op, start_year, end_year, sleep_seconds, raw_dir_ok, yr, frames,
                   raw_files, save_in, processed>>

\* Lines 260-269; an exception goes to the except clause, which returns an empty table.
PartialFetch ==
    /\ op = "fetch_and_process_partial_year" /\ pc = "fetch"
    /\ \E o \in FetchOutcomes :
        /\ fetched' = [fetched EXCEPT ![yr] = o]
        /\ IF o.status = "raised"
           THEN payload' = payload /\ pending' = ReturnTable(EmptyFrame) /\ pc' = "sleep"
           ELSE payload' = o.payload /\ pending' = pending /\ pc' = "write"
    /\ Log("fetch")
    /\ UNCHANGED <<op, start_year, end_year, sleep_seconds, raw_dir_ok, yr, frames,
                   raw_files, result, save_in, processed>>

\* Lines 270-271.
PartialWrite ==
    /\ op = "fetch_and_process_partial_year" /\ pc = "write"
    /\ \E ok \in BOOLEAN :
        IF ok
        THEN /\ raw_files' = WriteText(raw_files, RawName(yr, TRUE), JsonDumps(payload))
             /\ Log("write")
             /\ pending' = pending
             /\ pc' = "normalize"
        ELSE /\ raw_files' = raw_files
             /\ Log("write_failed")
             /\ pending' = ReturnTable(EmptyFrame)
             /\ pc' = "sleep"
    /\ UNCHANGED <<op, start_year, end_year, sleep_seconds, raw_dir_ok, yr, payload,
                   frames, result, fetched, save_in, processed>>

\* Lines 273-291: normalize; an empty table returns an empty table; otherwise the
\* year and the location are set on every row, duplicate dates are dropped (first
\* kept) and the table is returned; an exception returns an empty table.
PartialProcess(p, y) ==
    LET out == daily_json_to_df(p) IN
    IF out.raised \/ IsEmpty(out.df) THEN EmptyFrame
    ELSE DropIfDupes(Annotate(SetColumn(out.df, "year", Broadcast(out.df, y))))

PartialNormalize ==
    /\ op = "fetch_and_process_partial_year" /\ pc = "normalize"
    /\ pending' = ReturnTable(PartialProcess(payload, yr))
    /\ Log("normalize")
    /\ pc' = "sleep"
    /\ UNCHANGED <<op, start_year, end_year, sleep_seconds, raw_dir_ok, yr, payload,
                   frames, raw_files, result, fetched, save_in, processed>>

\* Lines 292-293: the finally clause runs sleep(sleep_seconds) with the return value
\* pending; an exception of sleep replaces the return.
PartialSleep ==
    /\ op = "fetch_and_process_partial_year" /\ pc = "sleep"
    /\ Log("sleep")
    /\ result' = IF SleepRaises(sleep_seconds) THEN RaiseToCaller ELSE pending
    /\ pc' = "done"
    /\ UNCHANGED <<op, start_year, end_year, sleep_seconds, raw_dir_ok, yr, payload,
                   frames, pending, raw_files, fetched, save_in, processed>>

----------------------------------------------------------------------------
(* Specification of the two orchestrators *)

Init ==
    /\ pc = "mkdir"
    /\ sleep_seconds \in SleepValues
    /\ raw_dir_ok \in BOOLEAN
    /\ \/ /\ op = "fetch_and_process_years"
          /\ start_year \in Years /\ end_year \in Years
          /\ yr = 0
       \/ /\ op = "fetch_and_process_partial_year"
          /\ start_year = 0 /\ end_year = 0
          /\ yr \in Years
    /\ payload = NoDailyPayload
    /\ frames = <<>>
    /\ pending = NoResult
    /\ raw_files = {}
    /\ result = NoResult
    /\ fetched = [y \in Years |-> NoFetch]
    /\ trace = <<>>
    /\ save_in = NoSave
    /\ processed = NoDir

Next ==
    \/ YearsMkdir \/ YearsFetch \/ YearsWrite \/ YearsNormalize \/ YearsSleep
    \/ YearsFinish
    \/ PartialMkdir \/ PartialFetch \/ PartialWrite \/ PartialNormalize \/ PartialSleep

Spec == Init /\ [][Next]_vars

----------------------------------------------------------------------------
(* save_dataframe *)

OneRow == [a |-> "1"]

SaveTables ==
    {EmptyFrame,
     [columns |-> <<"a">>, rows |-> <<>>],
     [columns |-> <<"a">>, rows |-> <<OneRow>>],
     [columns |-> <<"a">>, rows |-> <<OneRow, OneRow>>]}

CsvPath == "with_parquet.csv"

ParquetPath == "with_parquet.parquet"

\* df.to_csv(path, index=False)
ToCsv(df) == [format |-> "csv", index |-> FALSE, table |-> df]

\* df.to_parquet(path, index=False, engine=parquet_engine)
ToParquet(df) == [format |-> "parquet", index |-> FALSE, table |-> df]

StaleFile(path) == [name |-> path, text |-> [format |-> "stale", index |-> FALSE, table |-> EmptyFrame]]

Artifact(kind, path) == [kind |-> kind, path |-> path]

\* Lines 41-46: artifacts = {}; an empty table returns it at once; otherwise
\* processed_dir.mkdir(parents=True, exist_ok=True).
SaveBegin ==
    /\ op = "save_dataframe" /\ pc = "begin"
    /\ IF IsEmpty(save_in.df)
       THEN /\ result' = [kind |-> "returned", df |-> EmptyFrame, artifacts |-> {}]
            /\ pc' = "done"
            /\ UNCHANGED <<processed, trace>>
       ELSE IF ~save_in.mkdir_ok
       THEN /\ result' = RaiseToCaller
            /\ pc' = "done"
            /\ UNCHANGED <<processed, trace>>
       ELSE /\ result' = result
            /\ processed' = [processed EXCEPT !.exists = TRUE]
            /\ trace' = Append(trace, Event("mkdir", 0))
            /\ pc' = "csv"
    /\ UNCHANGED <<op, start_year, end_year, sleep_seconds, raw_dir_ok, yr, payload,
                   frames, pending, raw_files, fetched, save_in>>

\* Lines 48-50: df.to_csv(csv_path, index=False); artifacts["csv"] = csv_path.
SaveCsv ==
    /\ op = "save_dataframe" /\ pc = "csv"
    /\ IF ~save_in.csv_ok
       THEN /\ result' = RaiseToCaller
            /\ pc' = "done"
            /\ UNCHANGED <<processed, trace, pending>>
       ELSE /\ result' = result
            /\ processed' = [processed EXCEPT
                                !.files = WriteText(@, CsvPath, ToCsv(save_in.df))]
            /\ trace' = Append(trace, Event("csv", 0))
            /\ pending' = [pending EXCEPT !.artifacts = @ \cup {Artifact("csv", CsvPath)}]
            /\ pc' = IF save_in.write_parquet THEN "parquet" ELSE "return"
    /\ UNCHANGED <<op, start_year, end_year, sleep_seconds, raw_dir_ok, yr, payload,
                   frames, raw_files, fetched, save_in>>

\* The Parquet copy without the try/except: its failure leaves the function.
SaveParquetUncaught ==
    /\ op = "save_dataframe" /\ pc = "parquet"
    /\ IF save_in.parquet_ok
       THEN /\ processed' = [processed EXCEPT
                                !.files = WriteText(@, ParquetPath, ToParquet(save_in.df))]
            /\ trace' = Append(trace, Event("parquet", 0))
            /\ pending' = [pending EXCEPT
                                !.artifacts = @ \cup {Artifact("parquet", ParquetPath)}]
            /\ result' = result
            /\ pc' = "return"
       ELSE /\ UNCHANGED <<processed, trace, pending>>
            /\ result' = RaiseToCaller
            /\ pc' = "done"
    /\ UNCHANGED <<op, start_year, end_year, sleep_seconds, raw_dir_ok, yr, payload,
                   frames, raw_files, fetched, save_in>>

\* Lines 52-58: the Parquet copy inside try/except Exception: a failure is logged.
SaveParquet ==
    /\ op = "save_dataframe" /\ pc = "parquet"
    /\ IF save_in.parquet_ok
       THEN /\ processed' = [processed EXCEPT
                                !.files = WriteText(@, ParquetPath, ToParquet(save_in.df))]
            /\ trace' = Append(trace, Event("parquet", 0))
            /\ pending' = [pending EXCEPT
                                !.artifacts = @ \cup {Artifact("parquet", ParquetPath)}]
       ELSE UNCHANGED <<processed, trace, pending>>
    /\ pc' = "return"
    /\ UNCHANGED <<op, start_year, end_year, sleep_seconds, raw_dir_ok, yr, payload,
                   frames, raw_files, result, fetched, save_in>>

\* Lines 60-61: return artifacts.
SaveReturn ==
    /\ op = "save_dataframe" /\ pc = "return"
    /\ result' = [kind |-> "returned", df |-> EmptyFrame, artifacts |-> pending.artifacts]
    /\ pc' = "done"
    /\ UNCHANGED <<op, start_year, end_year, sleep_seconds, raw_dir_ok, yr, payload,
                   frames, pending, raw_files, fetched, trace, save_in, processed>>

\* processed_dir before the call: absent, empty, or holding files of an earlier run.
DirStates ==
    {NoDir,
     [exists |-> TRUE, files |-> {}],
     [exists |-> TRUE, files |-> {StaleFile(CsvPath), StaleFile(ParquetPath)}]}

InitSave ==
    /\ op = "save_dataframe"
    /\ pc = "begin"
    /\ save_in \in [df : SaveTables, write_parquet : BOOLEAN, mkdir_ok : BOOLEAN,
                    csv_ok : BOOLEAN, parquet_ok : BOOLEAN, dir_before : DirStates]
    /\ processed = save_in.dir_before
    /\ start_year = 0 /\ end_year = 0 /\ yr = 0
    /\ sleep_seconds = 0
    /\ raw_dir_ok = TRUE
    /\ payload = NoDailyPayload
    /\ frames = <<>>
    /\ pending = NoResult
    /\ raw_files = {}
    /\ result = NoResult
    /\ fetched = [y \in Years |-> NoFetch]
    /\ trace = <<>>

NextSave == SaveBegin \/ SaveCsv \/ SaveParquet \/ SaveReturn

SpecSave == InitSave /\ [][NextSave]_vars

----------------------------------------------------------------------------
(* Properties of fetch_and_process_years *)

Positions(e, y) == {i \in DOMAIN trace : trace[i] = Event(e, y)}

Count(e, y) == Cardinality(Positions(e, y))

YearRange == start_year..end_year

InYears == op = "fetch_and_process_years"

InPartial == op = "fetch_and_process_partial_year"

\* The call ran with a raw_dir it could create and a delay sleep accepts.
UsableArguments == raw_dir_ok /\ ~SleepRaises(sleep_seconds)

NormalizedYear(y) == daily_json_to_df(fetched[y].payload)

\* Year y was fetched, written and normalized to a non-empty table.
Produced(y) ==
    /\ fetched[y].status = "ok"
    /\ Count("normalize", y) = 1
    /\ ~NormalizedYear(y).raised
    /\ ~IsEmpty(NormalizedYear(y).df)

ExpectedRows(y) ==
    LET df == NormalizedYear(y).df
    IN Range(Annotate(SetColumn(df, "year", Broadcast(df, y))).rows)

DatesOf(rows) == {r["date"] : r \in rows}

\* C1: whatever years fail in their fetch, raw write or normalization, a multi-year
\* call does not raise, every year of the range is fetched once (and normalized when
\* its fetch and write went through), and the returned rows are rows of the years that
\* normalized to a non-empty table, with every date of those years present.
C1_YearFailureIsolated ==
    (InYears /\ pc = "done" /\ UsableArguments) =>
        /\ result.kind = "returned"
        /\ \A y \in YearRange :
            /\ Count("fetch", y) = 1
            /\ (fetched[y].status = "ok" /\ Count("write_failed", y) = 0)
                    => Count("normalize", y) = 1
        /\ LET all == UNION {ExpectedRows(y) : y \in {z \in YearRange : Produced(z)}}
           IN /\ Range(result.df.rows) \subseteq all
              /\ DatesOf(Range(result.df.rows)) = DatesOf(all)

\* A finished call in which an earlier year's fetch raised, another year's
\* normalization raised and a later year still delivered rows.
C1_Witness ==
    /\ InYears /\ pc = "done" /\ UsableArguments
    /\ \E y1, y2, y3 \in YearRange :
        /\ y1 < y3 /\ y2 < y3
        /\ fetched[y1].status = "raised"
        /\ fetched[y2].status = "ok" /\ Count("normalize", y2) = 1 /\ NormalizedYear(y2).raised
        /\ Produced(y3)
    /\ ~IsEmpty(result.df)

FirstWithDate(df, d) == df.rows[Min({i \in DOMAIN df.rows : df.rows[i]["date"] = d})]

\* C2: the row kept for a date is the first row with that date in concatenation
\* order (lowest year, earliest position), however the sort orders equal dates.
C2_FirstOccurrenceKept ==
    (InYears /\ pc = "done" /\ result.kind = "returned" /\ frames # <<>>) =>
        \A r \in Range(result.df.rows) :
            r = FirstWithDate(Annotate(Concat(frames)), r["date"])

\* C3: a non-empty table returned by a multi-year call is strictly ascending by date
\* (so no date appears twice), and every row carries the call's latitude, longitude
\* and timezone and the year of a fetch whose payload holds that row.
C3_SortedUniqueAnnotated ==
    (InYears /\ pc = "done" /\ result.kind = "returned" /\ ~IsEmpty(result.df)) =>
        LET rows == result.df.rows IN
        /\ \A i \in 1..(Len(rows) - 1) : DateKey(rows[i]) < DateKey(rows[i + 1])
        /\ \A i \in DOMAIN rows :
            /\ rows[i]["latitude"] = lat
            /\ rows[i]["longitude"] = lon
            /\ rows[i]["timezone"] = timezone
            /\ rows[i]["year"] \in YearRange
            /\ \E r \in Range(NormalizedYear(rows[i]["year"]).df.rows) :
                /\ r["date"] = rows[i]["date"]
                /\ r["temperature_2m_max"] = rows[i]["temperature_2m_max"]

\* A returned table of two dates built from payloads that repeat a date within a
\* year and across years, one of them listing its dates in descending order.
C3_Witness ==
    /\ InYears /\ pc = "done" /\ result.kind = "returned"
    /\ Len(result.df.rows) = 2
    /\ \E y1, y2 \in YearRange :
        /\ y1 < y2
        /\ fetched[y1].payload = SamplePayload(<<"2024-01-01T06:00", "2024-01-01T06:00">>)
        /\ fetched[y2].payload = SamplePayload(<<"2024-01-02T00:00", "2024-01-01T06:00">>)
        /\ Produced(y1) /\ Produced(y2)

----------------------------------------------------------------------------
(* Properties of both orchestrators *)

\* C4: a partial-year call never raises to its caller; whatever step fails (creating
\* the raw directory, the fetch, the raw write, normalization, the delay), it returns,
\* and what it returns after a failure is an empty table.
C4_PartialNeverRaises ==
    (InPartial /\ pc = "done") =>
        /\ result.kind = "returned"
        /\ (~raw_dir_ok \/ SleepRaises(sleep_seconds) \/ fetched[yr].status # "ok")
                => IsEmpty(result.df)

FetchPositions == {i \in DOMAIN trace : trace[i].ev = "fetch"}

SleepPositions == {i \in DOMAIN trace : trace[i].ev = "sleep"}

\* The position of the first fetch after position i, or the end of the trace.
NextFetchAfter(i) ==
    IF \E j \in FetchPositions : j > i
    THEN Min({j \in FetchPositions : j > i})
    ELSE Len(trace) + 1

\* The try body of the fetch at position i has ended.
StepEnded(i) == NextFetchAfter(i) <= Len(trace) \/ pc \in {"finish", "done"}

\* C5: every fetch attempt of an orchestrator is followed by exactly one delay, for
\* the same year, once its fetch/write/normalize step has ended and before the next
\* fetch; no delay happens without a fetch; a multi-year call that ran its loop made
\* one delay per year of the range, and a partial-year call that got to its fetch
\* made exactly one, also when it returns an empty table or caught an exception.
C5_OneDelayPerFetch ==
    (InYears \/ InPartial) =>
        /\ \A i \in FetchPositions :
            LET j == NextFetchAfter(i)
                between == {k \in SleepPositions : i < k /\ k < j}
            IN /\ Cardinality(between) <= 1
               /\ StepEnded(i) => Cardinality(between) = 1
               /\ \A k \in between :
                    /\ trace[k].yr = trace[i].yr
                    /\ k = j - 1
        /\ \A k \in SleepPositions : \E i \in FetchPositions : i < k
        /\ (InYears /\ pc \in {"finish", "done"} /\ UsableArguments) =>
                \A y \in Years : Count("sleep", y) = IF y \in YearRange THEN 1 ELSE 0
        /\ (InPartial /\ pc = "done" /\ raw_dir_ok) =>
                /\ Count("sleep", yr) = 1
                /\ Cardinality(SleepPositions) = 1

\* A finished partial-year call whose fetch raised: an empty table came back after
\* the one delay.
C5_Witness ==
    /\ InPartial /\ pc = "done"
    /\ fetched[yr].status = "raised"
    /\ result.kind = "returned" /\ IsEmpty(result.df)
    /\ trace[Len(trace)] = Event("sleep", yr)

RawFile(y) == {f \in raw_files : f.name = RawName(y, InPartial)}

\* The write step of year y is behind the call.
WriteStepOver(y) ==
    Count("write", y) + Count("write_failed", y) > 0

\* C6: a raw file exists only for a year whose fetch returned a payload, under the
\* name of the running orchestrator, and holds the dump of exactly that payload; it
\* is written before the payload is normalized; and once the write step of a fetched
\* year is over the file exists unless the write itself failed, whether
\* normalization then gives rows, an empty table or an exception.
C6_RawWrittenBeforeNormalize ==
    (InYears \/ InPartial) =>
        /\ \A f \in raw_files :
            /\ f.name.partial = InPartial
            /\ fetched[f.name.year].status = "ok"
            /\ f.text = JsonDumps(fetched[f.name.year].payload)
        /\ \A i \in DOMAIN trace :
            trace[i].ev = "normalize" =>
                /\ RawFile(trace[i].yr) # {}
                /\ \E j \in 1..(i - 1) : trace[j] = Event("write", trace[i].yr)
        /\ \A i \in DOMAIN trace :
            trace[i].ev \in {"write", "write_failed"} =>
                \E j \in 1..(i - 1) : trace[j] = Event("fetch", trace[i].yr)
        /\ \A y \in Years :
            /\ fetched[y].status # "ok" => RawFile(y) = {}
            /\ (fetched[y].status = "ok" /\ WriteStepOver(y))
                    => (RawFile(y) # {} <=> Count("write_failed", y) = 0)

\* A finished multi-year call with a raw file for a year whose normalization raised,
\* one for a year that had no daily block, and none for a year whose fetch raised.
C6_Witness ==
    /\ InYears /\ pc = "done"
    /\ \E y1, y2, y3 \in YearRange :
        /\ fetched[y1].status = "ok" /\ NormalizedYear(y1).raised /\ RawFile(y1) # {}
        /\ fetched[y2] = FetchOk(NoDailyPayload) /\ RawFile(y2) # {}
        /\ fetched[y3].status = "raised" /\ RawFile(y3) = {}

Rank(e) ==
    CASE e = "mkdir" -> 0
      [] e = "fetch" -> 1
      [] e \in {"write", "write_failed"} -> 2
      [] e = "normalize" -> 3
      [] e = "sleep" -> 4

IsFetch(e) == e.ev = "fetch"

RangeSize == IF start_year <= end_year THEN end_year - start_year + 1 ELSE 0

\* C10: a multi-year call fetches the years start_year, start_year + 1, ... in that
\* order, each at most once and none beyond end_year; a year's fetch, raw write,
\* normalization and delay come in this order and are all over before the next
\* year's fetch; a call that returns has fetched every year of the range; and with
\* start_year > end_year there is no fetch, no raw write and no delay and an empty
\* table is returned.
C10_OneSequentialFetchPerYear ==
    InYears =>
        /\ LET fs == SelectSeq(trace, IsFetch)
           IN /\ \A k \in DOMAIN fs : fs[k].yr = start_year + k - 1
              /\ Len(fs) <= RangeSize
              /\ (pc = "done" /\ result.kind = "returned") => Len(fs) = RangeSize
        /\ \A i \in 1..(Len(trace) - 1) :
            \/ trace[i].yr < trace[i + 1].yr
            \/ trace[i].yr = trace[i + 1].yr /\ Rank(trace[i].ev) < Rank(trace[i + 1].ev)
        /\ \A j \in FetchPositions :
            trace[j].yr > start_year => trace[j - 1] = Event("sleep", trace[j].yr - 1)
        /\ (start_year > end_year /\ pc = "done" /\ raw_dir_ok) =>
                /\ trace = <<Event("mkdir", 0)>>
                /\ raw_files = {}
                /\ result = ReturnTable(EmptyFrame)

\* A returned multi-year call over three years whose first fetch raised and whose
\* second year normalized to nothing.
C10_Witness ==
    /\ InYears /\ pc = "done" /\ result.kind = "returned"
    /\ end_year = start_year + 2
    /\ fetched[start_year].status = "raised"
    /\ fetched[start_year + 1] = FetchOk(NoDailyPayload)
    /\ Count("fetch", end_year) = 1

----------------------------------------------------------------------------
(* Properties of daily_json_to_df *)

NormDone == op = "daily_json_to_df" /\ pc = "done"

DailyKeys(p) == [i \in DOMAIN GetDaily(p).items |-> GetDaily(p).items[i].key]

TimeValues(p) ==
    LET items == GetDaily(p).items
    IN items[CHOOSE i \in DOMAIN items : items[i].key = "time"].vals

\* The daily block is absent, not a mapping, empty, without a 'time' column, of
\* columns of unequal length, or its 'time' column holds an unparseable date.
Malformed(p) ==
    \/ ~p.has_daily
    \/ ~p.daily.is_mapping
    \/ p.daily.items = <<>>
    \/ "time" \notin Range(DailyKeys(p))
    \/ ~EqualLengths(p.daily.items)
    \/ \E s \in Range(TimeValues(p)) : ~ToDatetime(s).ok

\* C7: on a missing or malformed daily block the normalizer does not raise and
\* returns an empty table.
C7_MalformedGivesEmpty ==
    (NormDone /\ Malformed(payload)) =>
        /\ result.kind = "returned"
        /\ IsEmpty(result.df)

\* A daily block the table library accepts: a non-empty mapping of equal-length
\* columns with a 'time' column of parseable dates and no 'date' key of its own.
WellFormed(p) ==
    /\ p.has_daily /\ p.daily.is_mapping /\ p.daily.items # <<>>
    /\ "time" \in Range(DailyKeys(p))
    /\ "date" \notin Range(DailyKeys(p))
    /\ EqualLengths(p.daily.items)
    /\ \A s \in Range(TimeValues(p)) : ToDatetime(s).ok

NotTime(k) == k # "time"

\* C8 as stated: for a well-formed payload the table's first column is 'date', the
\* other columns follow in the payload's order, no 'time' column is left and there
\* is one row per entry of the time list.
C8_DateColumnFirst ==
    (NormDone /\ WellFormed(payload)) =>
        /\ result.kind = "returned"
        /\ result.df.columns = <<"date">> \o SelectSeq(DailyKeys(payload), NotTime)
        /\ Len(result.df.rows) = Len(TimeValues(payload))

\* C8 as amended: for a well-formed payload the table's columns are the payload's
\* keys in their declared order with 'time' replaced by 'date' where it stood, so
\* 'date' is the first column exactly when 'time' is the first key; no 'time' column
\* is left, there is one row per entry of the time list, and row r's date is the day
\* of the r-th time entry.
C8_TimeRenamedInPlace ==
    (NormDone /\ WellFormed(payload)) =>
        LET keys == DailyKeys(payload) IN
        /\ result.kind = "returned"
        /\ result.df.columns =
                [i \in DOMAIN keys |-> IF keys[i] = "time" THEN "date" ELSE keys[i]]
        /\ (result.df.columns[1] = "date" <=> keys[1] = "time")
        /\ "time" \notin Range(result.df.columns)
        /\ Len(result.df.rows) = Len(TimeValues(payload))
        /\ \A r \in DOMAIN result.df.rows :
            result.df.rows[r]["date"] = DtNormalize(ToDatetime(TimeValues(payload)[r]))

\* A well-formed payload of two rows whose 'time' key comes second, normalized.
C8_Witness ==
    /\ NormDone /\ WellFormed(payload)
    /\ DailyKeys(payload) = <<"temperature_2m_max", "time">>
    /\ Len(result.df.rows) = 2
    /\ result.df.columns = <<"temperature_2m_max", "date">>

----------------------------------------------------------------------------
(* Properties of save_dataframe *)

SaveDone == op = "save_dataframe" /\ pc = "done"

\* The artifacts this call wrote, from its history.
WrittenByCall ==
    {Artifact("csv", CsvPath) : i \in Positions("csv", 0)}
        \cup {Artifact("parquet", ParquetPath) : i \in Positions("parquet", 0)}

FileText(path) == {f.text : f \in {g \in processed.files : g.name = path}}

\* C9: the mapping save returns is the set of artifacts the call wrote.  An empty
\* table returns an empty mapping and leaves processed_dir as it was (no directory,
\* no file).  A non-empty table that is returned has its CSV written and listed; the
\* Parquet kind is listed exactly when it was requested and its writer succeeded; a
\* failing Parquet writer does not make the call raise (only mkdir or the CSV writer
\* can) and leaves the CSV file and its entry in place.
C9_ArtifactsAreWhatWasWritten ==
    SaveDone =>
        /\ result.kind = "returned" => result.artifacts = WrittenByCall
        /\ IsEmpty(save_in.df) =>
                /\ result.kind = "returned"
                /\ result.artifacts = {}
                /\ processed = save_in.dir_before
        /\ (~IsEmpty(save_in.df) /\ result.kind = "returned") =>
                /\ Artifact("csv", CsvPath) \in result.artifacts
                /\ FileText(CsvPath) = {ToCsv(save_in.df)}
                /\ Artifact("parquet", ParquetPath) \in result.artifacts
                        <=> (save_in.write_parquet /\ save_in.parquet_ok)
                /\ Artifact("parquet", ParquetPath) \in result.artifacts
                        => FileText(ParquetPath) = {ToParquet(save_in.df)}
        /\ result.kind = "raised" =>
                ~IsEmpty(save_in.df) /\ (~save_in.mkdir_ok \/ ~save_in.csv_ok)

\* A finished save of a non-empty table whose requested Parquet writer failed: the
\* mapping lists the CSV alone and the CSV file is in place.
C9_Witness ==
    /\ SaveDone
    /\ ~IsEmpty(save_in.df) /\ save_in.write_parquet /\ ~save_in.parquet_ok
    /\ result.kind = "returned"
    /\ result.artifacts = {Artifact("csv", CsvPath)}
    /\ FileText(CsvPath) = {ToCsv(save_in.df)}

====
